---- MODULE Spec2Model ----
(***************************************************************************)
(* The two entry points of scripts/spotify_youtube_converter.py,           *)
(* process_playlist (preview) and start_download (convert), as a state     *)
(* machine.  The request thread's position is pc; the worker threads of    *)
(* the ThreadPoolExecutor act on the futures; the temp directory and the   *)
(* downloads directory are the shared file system.                         *)
(*                                                                         *)
(* Python strings are sequences of tokens (a token is a character or a     *)
(* fixed literal of the source).  None and the empty string are both the   *)
(* empty sequence: the code tests them only by truthiness.                 *)
(***************************************************************************)
EXTENDS Integers, Sequences, FiniteSets, TLC

VARIABLES
    pc,                    \* position of the request thread
    playlist_url,          \* argument of process_playlist
    songs,                 \* argument of start_download
    youtube_links,         \* get_youtube_links: the list being built
    errors,                \* start_download: errors
    futures,               \* download_playlist: future_to_song, in submission order
    zip_pos,               \* download_playlist: position of the loop it is in
    downloaded_files,      \* download_playlist: downloaded_files
    successful_downloads,  \* download_playlist: successful_downloads
    zip_path,              \* download_playlist: the archive it writes (None until chosen)
    zip_filename,          \* start_download: the archive name download_playlist returned
    temp,                  \* file names in TEMP_DIR
    archives,              \* DOWNLOADS_DIR: archive name -> its entries
    now,                   \* the wall clock, in seconds, when last read
    response,              \* the dict returned to the request layer
    search_log,            \* what the search provider did, per track (environment)
    pack_log,              \* what each file-system call of the packaging did (environment)
    provider_log,          \* what each call of the playlist provider did (environment)
    other_run              \* a second request's start_download: its position and archive

vars == <<pc, playlist_url, songs, youtube_links, errors, futures, zip_pos,
          downloaded_files, successful_downloads, zip_path, zip_filename, temp, archives,
          now, response, search_log, pack_log, provider_log, other_run>>

----------------------------------------------------------------------------
(* Bounds of the model *)

MaxTracks == 3
MaxUrlLen == 4
MaxClock == 1
MaxPoolTracks == 6
MaxNameLen == 2

None == <<>>

----------------------------------------------------------------------------
(* Strings *)

StartsWith(s, prefix) ==
    /\ Len(s) >= Len(prefix)
    /\ SubSeq(s, 1, Len(prefix)) = prefix


----------------------------------------------------------------------------
(* Tracks.  A track is the dict the request layer passes on: artist and    *)
(* title are strings, duration is minutes.                                 *)

Song(artist, title, duration) ==
    [artist |-> artist, title |-> title, duration |-> duration]

\* Two of the tracks differ only in a character the sanitizer drops.
TrackUniverse ==
    { Song(<<"A">>, <<"x">>, 3),
      Song(<<"A">>, <<"x", "/">>, 4),
      Song(<<"B">>, <<"y">>, 5) }

RECURSIVE SeqsUpTo(_, _)
SeqsUpTo(S, n) ==
    IF n = 0 THEN { <<>> }
    ELSE LET shorter == SeqsUpTo(S, n - 1)
         IN  shorter \cup { Append(s, x) : s \in { t \in shorter : Len(t) = n - 1 }, x \in S }

TrackLists == SeqsUpTo(TrackUniverse, MaxTracks)

\* Longer lists, of one track each: more tracks than the pool has workers.
PoolTrackLists ==
    { [i \in 1..n |-> Song(<<"A">>, <<"x">>, 3)] : n \in 0..MaxPoolTracks }

----------------------------------------------------------------------------
(* extract_playlist_id.  A URL is a sequence of tokens: "/", "?", the word *)
(* "playlist" and one other character.                                     *)

UrlAlphabet == { "/", "?", "playlist", "a" }

Urls == SeqsUpTo(UrlAlphabet, MaxUrlLen)

\* urlparse(url).path: what precedes the query.
RECURSIVE UrlPath(_)
UrlPath(url) ==
    IF url = <<>> \/ Head(url) = "?" THEN <<>>
    ELSE <<Head(url)>> \o UrlPath(Tail(url))

\* str.split('/'), with cur the segment read so far.
RECURSIVE SplitSlash(_, _)
SplitSlash(s, cur) ==
    IF s = <<>> THEN << cur >>
    ELSE IF Head(s) = "/" THEN << cur >> \o SplitSlash(Tail(s), <<>>)
    ELSE SplitSlash(Tail(s), Append(cur, Head(s)))

\* list.index(x): the first position holding x (the list holds x).
IndexOf(parts, x) ==
    CHOOSE i \in 1..Len(parts) :
        /\ parts[i] = x
        /\ \A j \in 1..(i - 1) : parts[j] # x

\* As extract_playlist_id, but reading the segment at the index itself.
extract_playlist_id_at_index(url) ==
    LET path_parts == SplitSlash(UrlPath(url), <<>>)
    IN  IF \E i \in 1..Len(path_parts) : path_parts[i] = <<"playlist">>
        THEN path_parts[IndexOf(path_parts, <<"playlist">>)]
        ELSE None

extract_playlist_id(url) ==
    LET path_parts == SplitSlash(UrlPath(url), <<>>)
    IN  IF \E i \in 1..Len(path_parts) : path_parts[i] = <<"playlist">>
        THEN LET next == IndexOf(path_parts, <<"playlist">>) + 1
             IN  IF next <= Len(path_parts)
                 THEN path_parts[next]
                 ELSE None          \* IndexError, caught: return None
        ELSE None


----------------------------------------------------------------------------
(* download_song's file name *)

\* Characters are tokens; "e_acute" is the letter U+00E9 and "arabic_three"
\* the digit U+0663.
Letters == { "A", "B", "x", "y" }
Digits == { "1" }
OtherLetters == { "e_acute" }
OtherDigits == { "arabic_three" }
Punctuation == { "/", "!" }

\* str.isalnum on one character: true of every letter and every digit of
\* Unicode.
isalnum(x) == x \in Letters \cup Digits \cup OtherLetters \cup OtherDigits

\* The sanitized name: f"{artist} - {title}" without the characters that are
\* neither alphanumeric nor "-" nor " ".
safe_title(song) ==
    LET keep(x) == isalnum(x) \/ x \in { "-", " " }
    IN  SelectSeq(song.artist \o <<" ", "-", " ">> \o song.title, keep)

final_filename(song) == safe_title(song) \o <<".mp3">>

----------------------------------------------------------------------------
(* get_youtube_links' list elements *)

NoResultFound == << "No result found" >>
CouldNotSearch == << "Error:", " Could not search" >>
WatchUrl(video_id) == << "https://www.youtube.com/watch?v=", video_id >>

SearchOutcomes == { "hit", "empty", "raise" }

\* query = f"{song['artist']} - {song['title']}"
query(song) == song.artist \o <<" ", "-", " ">> \o song.title

\* The videoId of the first item the provider returns for a query, when it
\* returns one: the provider's answer names the query it answers.
video_id(q) == << "video of" >> \o q

\* As LinkFor, but a search that raises appends what an empty result appends.
LinkFor_raise_as_no_result(song, outcome) ==
    CASE outcome = "hit"   -> WatchUrl(video_id(query(song)))
      [] outcome = "empty" -> NoResultFound
      [] outcome = "raise" -> NoResultFound

\* The element appended for one song, given what the search did.
LinkFor(song, outcome) ==
    CASE outcome = "hit"   -> WatchUrl(video_id(query(song)))
      [] outcome = "empty" -> NoResultFound
      [] outcome = "raise" -> CouldNotSearch

\* start_download's filter: link.startswith("Error:") or link == "No result found"
IsErrorLink(link) == StartsWith(link, <<"Error:">>) \/ link = NoResultFound

\* As IsSubmitted, but without the test for "Error:".
IsSubmitted_without_error_test(link) == link # NoResultFound

\* download_playlist's filter of the pairs it submits
IsSubmitted(link) == link # NoResultFound /\ ~StartsWith(link, <<"Error:">>)

----------------------------------------------------------------------------
(* The pool and the directories *)

max_workers_raised == 5 + 1

max_workers == 5

Futures == DOMAIN futures
InState(st) == { f \in Futures : futures[f].state = st }
Running == InState("running")

\* zip_filename for the second the clock shows
ArchiveName(t) == << "playlist_downloads_", t, ".zip" >>

\* os.path.getsize of an archive: an archive without entries still holds
\* its end-of-directory record.
getsize(name) == Len(archives[name].entries) + 1

ArchiveNames == { ArchiveName(t) : t \in 0..MaxClock }

exists(name) == name \in ArchiveNames /\ archives[name].present

Absent == [present |-> FALSE, entries |-> <<>>]

----------------------------------------------------------------------------
(* The state after import: both directories exist and are empty. *)

NoResponse == [pending |-> TRUE]

\* No second request has arrived.
OtherAbsent == [pc |-> "absent", zip_path |-> None]

Init ==
    /\ pc = "idle"
    /\ playlist_url = None
    /\ songs = <<>>
    /\ youtube_links = <<>>
    /\ errors = <<>>
    /\ futures = <<>>
    /\ zip_pos = 0
    /\ downloaded_files = <<>>
    /\ successful_downloads = <<>>
    /\ zip_path = None
    /\ zip_filename = None
    /\ temp = {}
    /\ archives = [name \in ArchiveNames |-> Absent]
    /\ now = 0
    /\ response = NoResponse
    /\ search_log = <<>>
    /\ pack_log = <<>>
    /\ provider_log = <<>>
    /\ other_run = OtherAbsent

\* The locals of a request, as a new request finds them.
FreshLocals ==
    /\ youtube_links' = <<>>
    /\ errors' = <<>>
    /\ futures' = <<>>
    /\ zip_pos' = 0
    /\ downloaded_files' = <<>>
    /\ successful_downloads' = <<>>
    /\ zip_path' = None
    /\ zip_filename' = None
    /\ response' = NoResponse
    /\ search_log' = <<>>
    /\ pack_log' = <<>>
    /\ provider_log' = <<>>

disk == <<temp, archives>>
dp_locals == <<futures, zip_pos, downloaded_files, successful_downloads, zip_path,
              pack_log>>
sd_locals == <<youtube_links, errors, zip_filename, search_log>>
request == <<playlist_url, songs>>


----------------------------------------------------------------------------
(* The request layer hands one request to one of the two entry points. *)

ReceivePreview ==
    /\ pc = "idle"
    /\ \E url \in Urls : playlist_url' = url
    /\ songs' = <<>>
    /\ FreshLocals
    /\ pc' = "pp_extract"
    /\ UNCHANGED <<other_run, disk, now>>

ReceiveConvert(lists) ==
    /\ pc = "idle"
    /\ playlist_url' = None
    /\ \E tracks \in lists : songs' = tracks
    /\ FreshLocals
    /\ pc' = "gyl_build"
    /\ UNCHANGED <<other_run, disk, now>>

----------------------------------------------------------------------------
(* process_playlist *)

InvalidUrl == [success |-> FALSE, error |-> "Invalid Spotify playlist URL"]
NoTracks == [success |-> FALSE, error |-> "No tracks found in playlist"]
Raised(e) == [success |-> FALSE, error |-> e]

\* playlist_id = extract_playlist_id(playlist_url); if not playlist_id: return
ExtractId ==
    /\ pc = "pp_extract"
    /\ IF extract_playlist_id(playlist_url) = None
       THEN /\ response' = InvalidUrl
            /\ pc' = "pp_done"
       ELSE /\ response' = response
            /\ pc' = "pp_tracks"
    /\ UNCHANGED <<other_run, request, sd_locals, dp_locals, disk, now, provider_log>>

\* What get_spotify_playlist_tracks returns for the songs the provider lists.
get_spotify_playlist_tracks(listed) ==
    [songs |-> listed,
     playlist_info |-> [name |-> "name", owner |-> "owner", track_count |-> Len(listed)]]

PreviewResponse(got) ==
    IF got.songs = <<>>
    THEN NoTracks
    ELSE [success |-> TRUE, phase |-> "info",
          playlist_info |-> got.playlist_info, songs |-> got.songs]

\* As FetchTracks, but fetching the first listed song into TEMP_DIR.
FetchTracks_and_download ==
    /\ pc = "pp_tracks"
    /\ \E raises \in BOOLEAN, listed \in TrackLists :
           /\ provider_log' = Append(provider_log, [raises |-> raises, listed |-> listed])
           /\ response' = IF raises
                           THEN Raised("spotify")
                           ELSE PreviewResponse(get_spotify_playlist_tracks(listed))
           /\ temp' = IF raises \/ listed = <<>>
                       THEN temp
                       ELSE temp \cup { final_filename(listed[1]) }
    /\ pc' = "pp_done"
    /\ UNCHANGED <<other_run, request, sd_locals, dp_locals, archives, now>>

\* songs, playlist_info = get_spotify_playlist_tracks(playlist_id), and the return
FetchTracks ==
    /\ pc = "pp_tracks"
    /\ \E raises \in BOOLEAN, listed \in TrackLists :
           /\ provider_log' = Append(provider_log, [raises |-> raises, listed |-> listed])
           /\ response' = IF raises
                           THEN Raised("spotify")
                           ELSE PreviewResponse(get_spotify_playlist_tracks(listed))
    /\ pc' = "pp_done"
    /\ UNCHANGED <<other_run, request, sd_locals, dp_locals, disk, now>>


----------------------------------------------------------------------------
(* start_download: get_youtube_links *)

\* youtube = build('youtube', 'v3', ...), outside the loop's try: an exception
\* here reaches start_download's handler, which returns the error alone.
BuildClient(raises) ==
    /\ pc = "gyl_build"
    /\ IF raises
       THEN /\ response' = Raised("youtube")
            /\ pc' = "sd_raised"
       ELSE /\ response' = response
            /\ pc' = "gyl_search"
    /\ UNCHANGED <<other_run, request, sd_locals, dp_locals, disk, now, provider_log>>

\* One iteration of the loop over songs: the search and the append.
SearchSong(outcome) ==
    /\ pc = "gyl_search"
    /\ Len(youtube_links) < Len(songs)
    /\ LET song == songs[Len(youtube_links) + 1]
       IN  youtube_links' = Append(youtube_links, LinkFor(song, outcome))
    /\ search_log' = Append(search_log, outcome)
    /\ UNCHANGED <<other_run, pc, request, errors, zip_filename, dp_locals, disk, now, response,
                   provider_log>>

\* return youtube_links; errors = [...]; download_playlist opens the executor.
CollectErrors ==
    /\ pc = "gyl_search"
    /\ Len(youtube_links) = Len(songs)
    /\ errors' = SelectSeq(youtube_links, IsErrorLink)
    /\ zip_pos' = 1
    /\ pc' = "dp_submit"
    /\ UNCHANGED <<other_run, request, youtube_links, zip_filename, search_log, futures,
                   downloaded_files, successful_downloads, zip_path, pack_log, disk, now,
                   response, provider_log>>

----------------------------------------------------------------------------
(* download_playlist: the pool *)

NewFuture(k) == [pos |-> k, state |-> "queued", result |-> None, fetch |-> "none"]

\* One pair of zip(songs, links) in the dict comprehension; after the last,
\* the loop over as_completed begins.
Submit ==
    /\ pc = "dp_submit"
    /\ IF zip_pos <= Len(songs)
       THEN /\ futures' = IF IsSubmitted(youtube_links[zip_pos])
                          THEN Append(futures, NewFuture(zip_pos))
                          ELSE futures
            /\ zip_pos' = zip_pos + 1
            /\ pc' = pc
       ELSE /\ futures' = futures
            /\ zip_pos' = zip_pos
            /\ pc' = "dp_as_completed"
    /\ UNCHANGED <<other_run, request, sd_locals, downloaded_files, successful_downloads, zip_path,
                   pack_log,
                   disk, now, response, provider_log>>

\* A worker thread takes the oldest queued work item; the executor has at
\* most max_workers threads.
WorkerStart ==
    /\ InState("queued") # {}
    /\ Cardinality(Running) < max_workers
    /\ LET f == CHOOSE q \in InState("queued") : \A o \in InState("queued") : q <= o
       IN  futures' = [futures EXCEPT ![f].state = "running"]
    /\ UNCHANGED <<other_run, pc, request, sd_locals, zip_pos, downloaded_files,
                   successful_downloads, zip_path, pack_log, disk, now, response,
                   provider_log>>

FetchOutcomes == { "fetched", "missing", "error" }

\* download_song's return value: None when extract_info raised, else the
\* file name if the file is in TEMP_DIR after the call.
download_song(song, outcome, dir) ==
    IF outcome = "error" THEN None
    ELSE IF final_filename(song) \in dir THEN final_filename(song)
    ELSE None

\* TEMP_DIR after extract_info(url, download=True) with this outcome.
AfterFetch(song, outcome) ==
    IF outcome = "fetched" THEN temp \cup { final_filename(song) } ELSE temp

\* download_song runs to its return in worker f.
WorkerFinish(f, outcome) ==
    /\ f \in Running
    /\ LET song == songs[futures[f].pos]
       IN  /\ temp' = AfterFetch(song, outcome)
           /\ futures' = [futures EXCEPT
                             ![f].state = "finished",
                             ![f].fetch = outcome,
                             ![f].result = download_song(song, outcome, temp')]
    /\ UNCHANGED <<other_run, pc, request, sd_locals, zip_pos, downloaded_files,
                   successful_downloads, zip_path, pack_log, archives, now, response,
                   provider_log>>

Downloaded(song) ==
    [title |-> song.title, artist |-> song.artist, duration |-> song.duration]

\* One iteration of the loop over as_completed: a finished future not yet
\* yielded (those finished before the loop starts come in no fixed order).
Collect(f) ==
    /\ pc = "dp_as_completed"
    /\ f \in InState("finished")
    /\ futures' = [futures EXCEPT ![f].state = "yielded"]
    /\ LET file == futures[f].result
           song == songs[futures[f].pos]
       IN  IF file # None
           THEN /\ downloaded_files' = Append(downloaded_files, file)
                /\ successful_downloads' = Append(successful_downloads, Downloaded(song))
           ELSE UNCHANGED <<downloaded_files, successful_downloads>>
    /\ UNCHANGED <<other_run, pc, request, sd_locals, zip_pos, zip_path, pack_log, disk, now, response,
                   provider_log>>


----------------------------------------------------------------------------
(* download_playlist: the archive *)

\* As LeavePool, but without "if not downloaded_files: return None, ...".
LeavePool_without_empty_test(t) ==
    /\ pc = "dp_as_completed"
    /\ \A f \in Futures : futures[f].state = "yielded"
    /\ zip_filename' = zip_filename
    /\ t >= now
    /\ now' = t
    /\ zip_path' = ArchiveName(t)
    /\ pc' = "dp_zip_open"
    /\ UNCHANGED <<other_run, request, youtube_links, errors, search_log, futures, zip_pos,
                   downloaded_files, successful_downloads, disk, pack_log, response,
                   provider_log>>

\* As LeavePool, but leaving the loop over as_completed and the executor's
\* with block without waiting for the futures.
LeavePool_without_join(t) ==
    /\ pc = "dp_as_completed"
    /\ IF downloaded_files = <<>>
       THEN /\ zip_filename' = None
            /\ zip_path' = zip_path
            /\ now' = now
            /\ pc' = "sd_return"
       ELSE /\ zip_filename' = zip_filename
            /\ t >= now
            /\ now' = t
            /\ zip_path' = ArchiveName(t)
            /\ pc' = "dp_zip_open"
    /\ UNCHANGED <<other_run, request, youtube_links, errors, search_log, futures, zip_pos,
                   downloaded_files, successful_downloads, disk, pack_log, response,
                   provider_log>>

\* The executor's with block ends once every future has been yielded; then
\* "if not downloaded_files: return None, ..." or the archive is named after
\* the second t that datetime.now() shows.
LeavePool(t) ==
    /\ pc = "dp_as_completed"
    /\ \A f \in Futures : futures[f].state = "yielded"
    /\ IF downloaded_files = <<>>
       THEN /\ zip_filename' = None
            /\ zip_path' = zip_path
            /\ now' = now
            /\ pc' = "sd_return"
       ELSE /\ zip_filename' = zip_filename
            /\ t >= now
            /\ now' = t
            /\ zip_path' = ArchiveName(t)
            /\ pc' = "dp_zip_open"
    /\ UNCHANGED <<other_run, request, youtube_links, errors, search_log, futures, zip_pos,
                   downloaded_files, successful_downloads, disk, pack_log, response,
                   provider_log>>

\* zipfile.ZipFile(zip_path, 'w'): the file is created, or emptied if it is
\* there; a failure to open it is caught and None returned.
OpenZip(raises) ==
    /\ pc = "dp_zip_open"
    /\ IF raises
       THEN /\ archives' = archives
            /\ pack_log' = Append(pack_log, "open_raises")
            /\ zip_filename' = None
            /\ zip_pos' = zip_pos
            /\ pc' = "sd_return"
       ELSE /\ archives' = [archives EXCEPT ![zip_path] = [present |-> TRUE, entries |-> <<>>]]
            /\ pack_log' = Append(pack_log, "opened")
            /\ zip_filename' = zip_filename
            /\ zip_pos' = 1
            /\ pc' = "dp_zip_loop"
    /\ UNCHANGED <<other_run, request, youtube_links, errors, search_log, futures, downloaded_files,
                   successful_downloads, zip_path, temp, now, response, provider_log>>

PackOutcomes == { "ok", "write_raises", "remove_raises" }

\* The archive after zipf.write(file_path, file)
Written(file, outcome) ==
    IF outcome = "write_raises"
    THEN archives
    ELSE [archives EXCEPT ![zip_path].entries = Append(@, file)]

\* As Removed, but without the os.remove.
Removed_never(file, outcome) == temp

\* As Removed, but removing the file also when zipf.write raised.
Removed_also_when_write_raises(file, outcome) ==
    IF outcome = "remove_raises" THEN temp ELSE temp \ { file }

\* TEMP_DIR after os.remove(file_path), if it is reached
Removed(file, outcome) ==
    IF outcome = "ok" THEN temp \ { file } ELSE temp

\* One iteration of the loop over downloaded_files.  An exception closes the
\* archive as it is and returns None.
AddToZip(outcome) ==
    /\ pc = "dp_zip_loop"
    /\ zip_pos <= Len(downloaded_files)
    /\ LET file == downloaded_files[zip_pos]
       IN  IF file \in temp
           THEN /\ archives' = Written(file, outcome)
                /\ temp' = Removed(file, outcome)
                /\ pack_log' = Append(pack_log, outcome)
                /\ IF outcome = "ok"
                   THEN /\ zip_pos' = zip_pos + 1
                        /\ UNCHANGED <<pc, zip_filename>>
                   ELSE /\ zip_filename' = None
                        /\ pc' = "sd_return"
                        /\ zip_pos' = zip_pos
           ELSE /\ zip_pos' = zip_pos + 1
                /\ pack_log' = Append(pack_log, "not_found")
                /\ UNCHANGED <<pc, zip_filename, disk>>
    /\ UNCHANGED <<other_run, request, youtube_links, errors, search_log, futures, downloaded_files,
                   successful_downloads, zip_path, now, response, provider_log>>

\* return zip_filename, successful_downloads
CloseZip ==
    /\ pc = "dp_zip_loop"
    /\ zip_pos > Len(downloaded_files)
    /\ zip_filename' = zip_path
    /\ pc' = "sd_return"
    /\ UNCHANGED <<other_run, request, youtube_links, errors, search_log, dp_locals, disk, now,
                   response, provider_log>>

----------------------------------------------------------------------------
(* start_download: the report *)

Completed ==
    [success |-> TRUE, phase |-> "complete", songCount |-> Len(successful_downloads),
     zipFile |-> zip_filename, errors |-> errors, downloadedSongs |-> successful_downloads]

\* As Failed, but reporting no downloaded song.
Failed_without_songs ==
    [success |-> FALSE, error |-> "Failed to create zip file or no songs were downloaded",
     songCount |-> Len(songs), errors |-> errors, downloadedSongs |-> <<>>]

Failed ==
    [success |-> FALSE, error |-> "Failed to create zip file or no songs were downloaded",
     songCount |-> Len(songs), errors |-> errors, downloadedSongs |-> successful_downloads]

Report ==
    /\ pc = "sd_return"
    /\ response' = IF /\ zip_filename # None
                      /\ exists(zip_filename)
                      /\ getsize(zip_filename) > 0
                   THEN Completed
                   ELSE Failed
    /\ pc' = "sd_done"
    /\ UNCHANGED <<other_run, request, sd_locals, dp_locals, disk, now, provider_log>>

----------------------------------------------------------------------------

Next ==
    \/ ReceivePreview
    \/ ReceiveConvert(TrackLists)
    \/ ExtractId
    \/ FetchTracks
    \/ \E raises \in BOOLEAN : BuildClient(raises)
    \/ \E outcome \in SearchOutcomes : SearchSong(outcome)
    \/ CollectErrors
    \/ Submit
    \/ WorkerStart
    \/ \E f \in Futures, outcome \in FetchOutcomes : WorkerFinish(f, outcome)
    \/ \E f \in Futures : Collect(f)
    \/ \E t \in 0..MaxClock : LeavePool(t)
    \/ \E raises \in BOOLEAN : OpenZip(raises)
    \/ \E outcome \in PackOutcomes : AddToZip(outcome)
    \/ CloseZip
    \/ Report

Spec == Init /\ [][Next]_vars

\* The same operations on the longer lists, every search finding a video and
\* every fetch either producing its file or raising.
NextPool ==
    \/ ReceivePreview
    \/ ReceiveConvert(PoolTrackLists)
    \/ ExtractId
    \/ FetchTracks
    \/ \E raises \in BOOLEAN : BuildClient(raises)
    \/ SearchSong("hit")
    \/ CollectErrors
    \/ Submit
    \/ WorkerStart
    \/ \E f \in Futures, outcome \in { "fetched", "error" } : WorkerFinish(f, outcome)
    \/ \E f \in Futures : Collect(f)
    \/ \E t \in 0..MaxClock : LeavePool(t)
    \/ \E raises \in BOOLEAN : OpenZip(raises)
    \/ \E outcome \in PackOutcomes : AddToZip(outcome)
    \/ CloseZip
    \/ Report

SpecPool == Init /\ [][NextPool]_vars

----------------------------------------------------------------------------
(* download_song called on one track of any artist and title *)

NameAlphabet ==
    Letters \cup Digits \cup OtherLetters \cup OtherDigits \cup Punctuation \cup { "-", " " }

Names == SeqsUpTo(NameAlphabet, MaxNameLen)

InitSanitize ==
    /\ pc = "ds_call"
    /\ playlist_url = None
    /\ \E artist \in SeqsUpTo(NameAlphabet, 1), title \in Names :
           songs = << Song(artist, title, 3) >>
    /\ youtube_links = <<>>
    /\ errors = <<>>
    /\ futures = <<>>
    /\ zip_pos = 0
    /\ downloaded_files = <<>>
    /\ successful_downloads = <<>>
    /\ zip_path = None
    /\ zip_filename = None
    /\ temp = {}
    /\ archives = [name \in ArchiveNames |-> Absent]
    /\ now = 0
    /\ response = NoResponse
    /\ search_log = <<>>
    /\ pack_log = <<>>
    /\ provider_log = <<>>
    /\ other_run = OtherAbsent

\* download_song(song, url) from its first line to its return; the caller
\* keeps the file name returned.
DownloadSong(outcome) ==
    /\ pc = "ds_call"
    /\ LET song == songs[1]
           file == download_song(song, outcome, temp')
       IN  /\ temp' = AfterFetch(song, outcome)
           /\ downloaded_files' = IF file # None THEN << file >> ELSE <<>>
    /\ pc' = "ds_done"
    /\ UNCHANGED <<other_run, request, sd_locals, futures, zip_pos, successful_downloads, zip_path,
                   pack_log, archives, now, response, provider_log>>

NextSanitize == \E outcome \in FetchOutcomes : DownloadSong(outcome)

SpecSanitize == InitSanitize /\ [][NextSanitize]_vars

----------------------------------------------------------------------------
(* A second POST /convert, served by another thread of the same process    *)
(* while the first is in start_download.  Its download_playlist is         *)
(* followed from the end of its pool, where it has fetched its one track.  *)

OtherSong == Song(<<"B">>, <<"1">>, 3)

main_run == <<pc, request, sd_locals, dp_locals, response, provider_log>>

\* The second request's start_download up to the end of its loop over
\* as_completed: its track's file is in TEMP_DIR.
OtherFetch ==
    /\ other_run.pc = "absent"
    /\ pc # "idle"
    /\ temp' = temp \cup { final_filename(OtherSong) }
    /\ other_run' = [other_run EXCEPT !.pc = "dp_as_completed"]
    /\ UNCHANGED <<main_run, archives, now>>

\* timestamp = datetime.now().strftime("%Y%m%d_%H%M%S") in the second run
OtherLeavePool(t) ==
    /\ other_run.pc = "dp_as_completed"
    /\ t >= now
    /\ now' = t
    /\ other_run' = [pc |-> "dp_zip_open", zip_path |-> ArchiveName(t)]
    /\ UNCHANGED <<main_run, disk>>

\* zipfile.ZipFile(zip_path, 'w') in the second run
OtherOpenZip ==
    /\ other_run.pc = "dp_zip_open"
    /\ archives' = [archives EXCEPT
                        ![other_run.zip_path] = [present |-> TRUE, entries |-> <<>>]]
    /\ other_run' = [other_run EXCEPT !.pc = "dp_zip_loop"]
    /\ UNCHANGED <<main_run, temp, now>>

\* The second run's loop over its downloaded_files, and its return
OtherAddToZip ==
    /\ other_run.pc = "dp_zip_loop"
    /\ LET file == final_filename(OtherSong)
       IN  /\ archives' = [archives EXCEPT ![other_run.zip_path].entries = Append(@, file)]
           /\ temp' = temp \ { file }
    /\ other_run' = [other_run EXCEPT !.pc = "sd_return"]
    /\ UNCHANGED <<main_run, now>>

\* Two convert requests at overlapping times, every search finding a video
\* and every call of the fetch and of the packaging succeeding.
NextTwo ==
    \/ ReceiveConvert(TrackLists)
    \/ BuildClient(FALSE)
    \/ SearchSong("hit")
    \/ CollectErrors
    \/ Submit
    \/ WorkerStart
    \/ \E f \in Futures : WorkerFinish(f, "fetched")
    \/ \E f \in Futures : Collect(f)
    \/ \E t \in 0..MaxClock : LeavePool(t)
    \/ OpenZip(FALSE)
    \/ AddToZip("ok")
    \/ CloseZip
    \/ Report
    \/ OtherFetch
    \/ \E t \in 0..MaxClock : OtherLeavePool(t)
    \/ OtherOpenZip
    \/ OtherAddToZip

SpecTwo == Init /\ [][NextTwo]_vars


----------------------------------------------------------------------------
(* What the run did, for the properties below *)

Range(s) == { s[i] : i \in 1..Len(s) }

\* The elements of s at the positions in P, in the order of s.
RECURSIVE SubseqAt(_, _, _)
SubseqAt(s, P, i) ==
    IF i > Len(s) THEN <<>>
    ELSE (IF i \in P THEN << s[i] >> ELSE <<>>) \o SubseqAt(s, P, i + 1)

\* Positions of the tracks whose task returned a file name / whose own
\* fetch produced the file.
ReportedFetched == { futures[f].pos : f \in { g \in Futures : futures[g].result # None } }
TrulyFetched == { futures[f].pos : f \in { g \in Futures : futures[g].fetch = "fetched" } }
Unresolved == { i \in 1..Len(search_log) : search_log[i] # "hit" }

----------------------------------------------------------------------------
(* Properties *)

\* C1: in the report start_download builds from its lists, the tracks listed
\* as downloaded and the entries of errors together number the tracks passed
\* in: every track is accounted for exactly once.
C1_EveryTrackAccounted ==
    pc = "sd_done" =>
        Len(response.downloadedSongs) + Len(response.errors) = Len(songs)

\* C2: at no time are more than 5 fetch tasks running, however many tracks
\* were resolved (so a queued task starts only after a running one finished).
C2_PoolCeiling == Cardinality(Running) <= 5

C2_PoolFull == Cardinality(Running) = 5 /\ InState("queued") # {}

\* C3: a report of success lists the downloaded tracks in the order of their
\* positions in the input, and the errors in the order of the tracks they
\* belong to, whatever the order in which the tasks completed.
C3_ReportInInputOrder ==
    (pc = "sd_done" /\ response.success) =>
        /\ response.downloadedSongs = SubseqAt(songs, ReportedFetched, 1)
        /\ response.errors = SubseqAt(youtube_links, Unresolved, 1)


\* C4: once the packaging has returned the archive's name, none of the files
\* it was given is left in TEMP_DIR, and the archive's entries are exactly
\* the sanitized file names of the tracks listed as downloaded, each once.
C4_PackedAndCleaned ==
    (pc \in { "sd_return", "sd_done" } /\ zip_filename # None) =>
        LET entries == archives[zip_filename].entries
        IN  /\ \A i \in 1..Len(downloaded_files) : downloaded_files[i] \notin temp
            /\ Range(entries) = { final_filename(t) : t \in Range(successful_downloads) }
            /\ Cardinality(Range(entries)) = Len(entries)

C4_PackedTwo ==
    /\ pc = "sd_done"
    /\ zip_filename # None
    /\ Cardinality(Range(downloaded_files)) >= 2

\* The packaging ran to its end: the archive was opened and no call raised.
PackedWithoutError ==
    /\ pack_log # <<>>
    /\ Range(pack_log) \cap { "open_raises", "write_raises", "remove_raises" } = {}

Count(s, x) == Cardinality({ i \in 1..Len(s) : s[i] = x })

\* C5: the report says success exactly when the run's packaging ended without
\* an error and its archive is on disk and not empty; any other report says
\* failure and still lists every track whose fetch produced its file (the
\* handler's report is a failure, and then no fetch had begun).
C5_SuccessIffArchive ==
    /\ pc = "sd_done" =>
          /\ response.success <=>
                (PackedWithoutError /\ exists(zip_path) /\ getsize(zip_path) > 0)
          /\ ~response.success =>
                \A p \in TrulyFetched :
                    Count(response.downloadedSongs, Downloaded(songs[p]))
                        >= Cardinality({ q \in TrulyFetched : songs[q] = songs[p] })
    /\ pc = "sd_raised" => (~response.success /\ TrulyFetched = {})

C5_PartialFailure ==
    /\ pc = "sd_done"
    /\ ~response.success
    /\ TrulyFetched # {}

\* The reason start_download reports for a track the search did not resolve.
ReasonFor(outcome) ==
    IF outcome = "empty"
    THEN << "No result found" >>
    ELSE << "Error:", " Could not search" >>

\* C6: a track the search did not resolve is never submitted to the pool and
\* has one entry in errors, which tells "No result found" from "Error: ...";
\* a resolved track is submitted exactly once.
C6_UnresolvedNeverSubmitted ==
    /\ \A f \in Futures : search_log[futures[f].pos] = "hit"
    /\ \A f, g \in Futures : futures[f].pos = futures[g].pos => f = g
    /\ pc \in { "dp_as_completed", "dp_zip_open", "dp_zip_loop", "sd_return", "sd_done" } =>
          \A i \in 1..Len(songs) :
              search_log[i] = "hit" => \E f \in Futures : futures[f].pos = i
    /\ pc = "sd_done" =>
          response.errors =
              SubseqAt([i \in 1..Len(search_log) |-> ReasonFor(search_log[i])], Unresolved, 1)

C6_AllThreeOutcomes ==
    /\ pc = "sd_done"
    /\ Range(search_log) = { "hit", "empty", "raise" }

\* C7: a track's failure does not stop the run: every track whose fetch
\* produced its file is listed as downloaded, and every track that was not
\* downloaded (not resolved, or its fetch failed) has its entry in errors.
C7_FailuresReported ==
    pc = "sd_done" =>
        /\ \A p \in TrulyFetched : Downloaded(songs[p]) \in Range(response.downloadedSongs)
        /\ Len(response.errors) = Cardinality((1..Len(songs)) \ ReportedFetched)

\* C8: no step of a preview changes TEMP_DIR or the downloads directory or
\* starts a fetch task, whatever the URL and whatever the provider does.
C8_PreviewLeavesDisk ==
    [][pc' \in { "pp_extract", "pp_tracks", "pp_done" } =>
          (temp' = temp /\ archives' = archives /\ futures' = futures)]_vars

C8_Previewed == pc = "pp_done" /\ response.success

\* A URL's path has no identifier: no "playlist" segment, or the first one is
\* the last segment or is followed by an empty segment.
NoIdentifier(url) ==
    LET segs == SplitSlash(UrlPath(url), <<>>)
    IN  \A i \in 1..Len(segs) :
            (segs[i] = <<"playlist">> /\ \A j \in 1..(i - 1) : segs[j] # <<"playlist">>)
                => (i = Len(segs) \/ segs[i + 1] = <<>>)

\* C9: a preview of a URL without an identifier returns the invalid-URL error
\* and never calls the provider; with an identifier the provider is called
\* once, and the preview returns the empty-playlist error when it lists no
\* track and a failure carrying the provider's error when it raises.
C9_PreviewErrors ==
    /\ pc \in { "pp_extract", "pp_tracks", "pp_done" } /\ NoIdentifier(playlist_url)
          => provider_log = <<>>
    /\ pc = "pp_done" =>
          IF NoIdentifier(playlist_url)
          THEN response = [success |-> FALSE, error |-> "Invalid Spotify playlist URL"]
          ELSE /\ Len(provider_log) = 1
               /\ IF provider_log[1].raises
                  THEN response = [success |-> FALSE, error |-> "spotify"]
                  ELSE IF provider_log[1].listed = <<>>
                  THEN response = [success |-> FALSE, error |-> "No tracks found in playlist"]
                  ELSE response.success /\ response.songs = provider_log[1].listed

C9_PlaylistWithoutId ==
    /\ pc = "pp_done"
    /\ NoIdentifier(playlist_url)
    /\ <<"playlist">> \in Range(SplitSlash(UrlPath(playlist_url), <<>>))

\* C10: when the search has run and no track's fetch produced a file (none
\* resolved, every fetch failed, or there was no track), no archive is on
\* disk, the packaging returned None without opening an archive, and the
\* report says failure with no downloaded song.
C10_NothingFetched ==
    (pc = "sd_done" /\ TrulyFetched = {}) =>
        /\ \A name \in ArchiveNames : ~exists(name)
        /\ zip_path = None /\ pack_log = <<>> /\ zip_filename = None
        /\ ~response.success
        /\ response.downloadedSongs = <<>>

C10_AllFailed ==
    /\ pc = "sd_done"
    /\ TrulyFetched = {}
    /\ Futures # {}
    /\ Unresolved # {}

----------------------------------------------------------------------------

SuccessFields == { "success", "phase", "songCount", "zipFile", "errors", "downloadedSongs" }
FailureFields == { "success", "error", "songCount", "errors", "downloadedSongs" }

\* C11: every response start_download returns, the handler's included, has
\* the documented shape: a success carries phase, songCount, the archive
\* name, errors and downloadedSongs; a failure carries error, songCount,
\* errors and downloadedSongs.
C11_StructuredResponse ==
    pc \in { "sd_done", "sd_raised" } =>
        IF response.success
        THEN DOMAIN response = SuccessFields
        ELSE DOMAIN response = FailureFields

\* C12: in a report of success songCount is the number of tracks listed as
\* downloaded and the number of entries of the archive, and errors has one
\* entry per track the search did not resolve.
C12_CountsAgree ==
    (pc = "sd_done" /\ response.success) =>
        /\ response.songCount = Len(response.downloadedSongs)
        /\ response.songCount = Len(archives[response.zipFile].entries)
        /\ Len(response.errors) = Cardinality(Unresolved)

\* get_youtube_links has returned.
Resolved == pc \in { "dp_submit", "dp_as_completed", "dp_zip_open", "dp_zip_loop",
                     "sd_return", "sd_done" }

\* C13: get_youtube_links' list has one element per track searched so far and,
\* once returned, one per track of its input; the i-th element is the watch
\* URL of the i-th track's video when the search found one, "No result found"
\* when it found none and "Error: Could not search" when it raised, whatever
\* the searches before it did.
C13_LinkPerTrack ==
    /\ Len(youtube_links) = Len(search_log)
    /\ Len(youtube_links) <= Len(songs)
    /\ Resolved => Len(youtube_links) = Len(songs)
    /\ \A i \in 1..Len(youtube_links) :
          youtube_links[i] =
              CASE search_log[i] = "hit" ->
                       << "https://www.youtube.com/watch?v=",
                          << "video of" >> \o songs[i].artist \o <<" ", "-", " ">>
                                           \o songs[i].title >>
                [] search_log[i] = "empty" -> << "No result found" >>
                [] search_log[i] = "raise" -> << "Error:", " Could not search" >>

C13_ErrorThenOthers ==
    /\ Resolved
    /\ search_log = << "raise", "hit", "empty" >>
    /\ songs[1] # songs[2]

\* C14: the file name download_song builds for a track is the same at every
\* call for that track, and apart from its ".mp3" it holds only the
\* characters A-Z, a-z, 0-9, "-" and " ", whatever the artist and the title.
C14_SafeNameAscii ==
    \A file \in temp \cup Range(downloaded_files) :
        /\ file = final_filename(songs[1])
        /\ \A i \in 1..(Len(file) - 1) :
               file[i] \in Letters \cup Digits \cup { "-", " " }

\* C15: a step that submits, starts, finishes or collects a fetch task is
\* taken only when every track of the input has its element in
\* youtube_links; a step that creates the archive, adds an entry to it or
\* removes a file from TEMP_DIR is taken only when every resolved track's
\* task has been submitted, has finished and has been collected.
C15_StagesInOrder ==
    [][/\ (futures' # futures /\ futures' # <<>>) =>
              (Len(youtube_links) = Len(songs) /\ Len(search_log) = Len(songs))
       /\ (archives' # archives \/ ~(temp \subseteq temp')) =>
              /\ \A f \in Futures : futures[f].state = "yielded"
              /\ \A i \in 1..Len(songs) :
                     search_log[i] = "hit" => \E f \in Futures : futures[f].pos = i
      ]_vars

C15_PackedAfterPool ==
    /\ pc = "dp_zip_loop"
    /\ zip_pos > 1
    /\ Cardinality(Futures) >= 2
    /\ Unresolved # {}

\* C16: a task returns a file name only if its own fetch produced the file,
\* and no two tasks of a run produce the same file of TEMP_DIR, so that no
\* task's file is overwritten by another's.
C16_TasksIndependent ==
    /\ \A f \in Futures : futures[f].result # None => futures[f].fetch = "fetched"
    /\ \A f, g \in Futures :
          (f # g /\ futures[f].fetch = "fetched" /\ futures[g].fetch = "fetched") =>
              final_filename(songs[futures[f].pos]) # final_filename(songs[futures[g].pos])

\* zipf.write or os.remove raised in the packaging loop, at the file zip_pos.
PackagingRaised ==
    /\ pc \in { "sd_return", "sd_done" }
    /\ pack_log # <<>>
    /\ pack_log[Len(pack_log)] \in { "write_raises", "remove_raises" }

\* C17: when zipf.write or os.remove raises at the k-th file, download_playlist
\* returns no archive name and the report says failure; the archive stays in
\* the downloads directory with the entries written so far; the files before
\* the k-th are in the archive and no longer in TEMP_DIR; the k-th and the
\* later files are still in TEMP_DIR (unless one of the same name was
\* packaged before).
C17_PackagingError ==
    PackagingRaised =>
        LET k == zip_pos
            entries == archives[zip_path].entries
            written == IF pack_log[Len(pack_log)] = "remove_raises" THEN k ELSE k - 1
        IN  /\ zip_filename = None
            /\ pc = "sd_done" => (~response.success /\ "zipFile" \notin DOMAIN response)
            /\ exists(zip_path)
            /\ Range(entries) = { downloaded_files[i] : i \in 1..written }
            /\ \A i \in 1..(k - 1) : downloaded_files[i] \notin temp
            /\ \A i \in k..Len(downloaded_files) :
                   \/ downloaded_files[i] \in temp
                   \/ \E j \in 1..(k - 1) : downloaded_files[j] = downloaded_files[i]

C17_SecondWriteRaised ==
    /\ pc = "sd_done"
    /\ pack_log = << "opened", "ok", "write_raises" >>

\* C18: two convert runs at overlapping times never name the same archive,
\* and the archive a run has open holds only what that run has written: the
\* files of its own list up to its position in the packaging loop.
C18_OwnArchive ==
    /\ (zip_path # None /\ other_run.zip_path # None) => zip_path # other_run.zip_path
    /\ pc = "dp_zip_loop" =>
          Range(archives[zip_path].entries) \subseteq
              { downloaded_files[i] : i \in 1..(zip_pos - 1) }
    /\ (pc = "sd_done" /\ response.success) =>
          Range(archives[zip_path].entries) = Range(downloaded_files)

====
